---- MODULE Spec2Model ----
(***************************************************************************)
(* Model of WebsiteGraphCrawler (.github/workflows/generate-graph/index.py) *)
(* : the URL normalizer, the ignore-path filter, the robots gate, the       *)
(* fetcher and the breadth-first crawl loop that builds the link graph.     *)
(*                                                                          *)
(* Strings.  A Python str is modelled as a sequence of symbols.  Every     *)
(* delimiter character the code looks at ("/", ":", "?", "#", "*", "[",     *)
(* "]") is a symbol of its own; a run of other characters ("https",         *)
(* "x.test", "about") is one symbol.  The alphabet holds no ";", no         *)
(* whitespace, no "." or ".." path segment and no upper-case letter, so     *)
(* the params component of urlparse is always empty, str.strip() and        *)
(* str.lower() change nothing and urljoin removes no dot segment.           *)
(***************************************************************************)
EXTENDS Integers, Sequences, FiniteSets, TLC

\* Python's None where a str is expected: a string of one reserved symbol
\* that is no symbol of the alphabet.
None == <<"None">>

\* The one-character string "/".
Slash == <<"/">>

\* The values of type str.
Str == Seq(STRING)

----------------------------------------------------------------------------
(* str primitives used by the code.  The pure functions on strings and on  *)
(* urls are TLA+ functions: an application f[e] computes its argument e    *)
(* once.                                                                    *)

\* s.startswith(p)
StartsWith[s \in Str, p \in Str] ==
    /\ Len(p) <= Len(s)
    /\ SubSeq(s, 1, Len(p)) = p

\* s.endswith(p)
EndsWith[s \in Str, p \in Str] ==
    /\ Len(p) <= Len(s)
    /\ SubSeq(s, Len(s) - Len(p) + 1, Len(s)) = p

\* s.rstrip(c) for a single character c: every trailing c is removed.
RStrip[s \in Str, c \in STRING] ==
    IF s # <<>> /\ s[Len(s)] = c
    THEN RStrip[SubSeq(s, 1, Len(s) - 1), c]
    ELSE s

\* s.find(c) + 1 for a single character c: index of the first c, 0 if none.
FindFrom[s \in Str, c \in STRING, i \in Nat] ==
    IF i > Len(s) THEN 0
    ELSE IF s[i] = c THEN i
    ELSE FindFrom[s, c, i + 1]

Find[s \in Str, c \in STRING] == FindFrom[s, c, 1]

\* c in s
Contains[s \in Str, c \in STRING] == Find[s, c] # 0

\* Index of the first symbol of s that is one of cs, Len(s) + 1 if none.
FirstOf[s \in Str, cs \in SUBSET STRING, i \in Nat] ==
    IF i > Len(s) THEN Len(s) + 1
    ELSE IF s[i] \in cs THEN i
    ELSE FirstOf[s, cs, i + 1]

\* s.split("/"): the list of the segments between slashes.
Split[s \in Str] ==
    LET i == Find[s, "/"] IN
    IF i = 0 THEN <<s>>
    ELSE <<SubSeq(s, 1, i - 1)>> \o Split[SubSeq(s, i + 1, Len(s))]

\* "/".join(parts)
Join[parts \in Seq(Str)] ==
    IF parts = <<>> THEN <<>>
    ELSE IF Len(parts) = 1 THEN parts[1]
    ELSE parts[1] \o Slash \o Join[Tail(parts)]

\* fnmatch.fnmatch(s, p) on POSIX (case kept): "*" matches any run of
\* symbols, every other symbol of the alphabet matches itself.
FnMatch[s \in Str, p \in Str] ==
    IF p = <<>> THEN s = <<>>
    ELSE IF Head(p) = "*"
         THEN FnMatch[s, Tail(p)] \/ (s # <<>> /\ FnMatch[Tail(s), p])
         ELSE s # <<>> /\ Head(s) = Head(p) /\ FnMatch[Tail(s), Tail(p)]

----------------------------------------------------------------------------
(* urllib.parse *)

\* Symbols that may make up a scheme (letter runs); delimiters may not.
Delimiters == {"/", ":", "?", "#", "*", "[", "]"}

\* The schemes of the alphabet that urllib.parse lists in uses_relative and
\* in uses_netloc (both lists hold "", "http" and "https"; "mailto" is in
\* neither).
UsesNetloc == {<<>>, <<"https">>, <<"http">>}

\* s.split(c, 1)[0] and the rest after the first c ("" when s has no c).
Before[s \in Str, c \in STRING] ==
    IF Find[s, c] = 0 THEN s ELSE SubSeq(s, 1, Find[s, c] - 1)

After[s \in Str, c \in STRING] ==
    IF Find[s, c] = 0 THEN <<>> ELSE SubSeq(s, Find[s, c] + 1, Len(s))

\* urlsplit: url[:i] is a scheme when i = url.find(":") > 0 and every
\* character before it is a scheme character.
HasScheme[url \in Str] ==
    /\ Find[url, ":"] > 1
    /\ \A k \in 1..(Find[url, ":"] - 1) : url[k] \notin Delimiters

\* urlsplit: `if url[:2] == "//": netloc, url = _splitnetloc(url, 2)`
NetlocOf[r \in Str] ==
    IF StartsWith[r, <<"/", "/">>]
    THEN SubSeq(r, 3, FirstOf[r, {"/", "?", "#"}, 3] - 1)
    ELSE <<>>

AfterNetloc[r \in Str] ==
    IF StartsWith[r, <<"/", "/">>]
    THEN SubSeq(r, FirstOf[r, {"/", "?", "#"}, 3], Len(r))
    ELSE r

\* urlsplit after the netloc is cut off: fragment, then query, then path.
\* valid = FALSE where urlsplit raises ValueError("Invalid IPv6 URL").
SplitUrl[scheme \in Str, netloc \in Str, r \in Str] ==
    [ scheme   |-> scheme,
      netloc   |-> netloc,
      path     |-> Before[Before[r, "#"], "?"],
      params   |-> <<>>,
      query    |-> After[Before[r, "#"], "?"],
      fragment |-> After[r, "#"],
      valid    |-> Contains[netloc, "["] = Contains[netloc, "]"] ]

\* urlsplit after the scheme is cut off.
UrlParseRest[scheme \in Str, r \in Str] == SplitUrl[scheme, NetlocOf[r], AfterNetloc[r]]

\* urllib.parse.urlparse(url, scheme=default)
UrlParse[url \in Str, default \in Str] ==
    IF HasScheme[url]
    THEN UrlParseRest[Before[url, ":"], After[url, ":"]]
    ELSE UrlParseRest[default, url]

\* urllib.parse.urlunparse((scheme, netloc, path, params, query, fragment))
UrlUnparse[scheme, netloc, path, params, query, fragment \in Str] ==
    LET u1 == IF netloc # <<>>
                 \/ (scheme # <<>> /\ scheme \in UsesNetloc
                       /\ ~ StartsWith[path, <<"/", "/">>])
              THEN <<"/", "/">> \o netloc
                     \o (IF path # <<>> /\ Head(path) # "/"
                         THEN Slash \o path ELSE path)
              ELSE path
        u2 == IF scheme # <<>> THEN scheme \o <<":">> \o u1 ELSE u1
        u3 == IF query # <<>> THEN u2 \o <<"?">> \o query ELSE u2
    IN  IF fragment # <<>> THEN u3 \o <<"#">> \o fragment ELSE u3

\* The segment filter of urljoin: segments[1:-1] = filter(None, segments[1:-1])
DropInnerEmpty[segs \in Seq(Str)] ==
    IF Len(segs) <= 2 THEN segs
    ELSE <<segs[1]>>
           \o SelectSeq(SubSeq(segs, 2, Len(segs) - 1), LAMBDA x : x # <<>>)
           \o <<segs[Len(segs)]>>

\* urljoin: base_parts, without the last item unless it is a directory.
BaseParts[bpath \in Str] ==
    IF Split[bpath][Len(Split[bpath])] # <<>>
    THEN SubSeq(Split[bpath], 1, Len(Split[bpath]) - 1)
    ELSE Split[bpath]

\* urljoin: the resolved path of a reference with a path.
ResolvePath[bpath \in Str, path \in Str] ==
    IF StartsWith[path, Slash]
    THEN (IF Join[Split[path]] = <<>> THEN Slash ELSE Join[Split[path]])
    ELSE (IF Join[DropInnerEmpty[BaseParts[bpath] \o Split[path]]] = <<>>
          THEN Slash
          ELSE Join[DropInnerEmpty[BaseParts[bpath] \o Split[path]]])

\* The values urlparse returns (a ParseResult), with valid = FALSE standing
\* for the ValueError urlparse raises instead.
Parsed ==
    [ scheme : Str, netloc : Str, path : Str, params : Str, query : Str,
      fragment : Str, valid : BOOLEAN ]

\* urljoin once base (b) and url (u) are parsed.
UrlJoinParsed[url \in Str, b \in Parsed, u \in Parsed] ==
    IF u.scheme # b.scheme \/ u.scheme \notin UsesNetloc THEN url
    ELSE IF u.netloc # <<>>
         THEN UrlUnparse[u.scheme, u.netloc, u.path, u.params, u.query, u.fragment]
    ELSE IF u.path = <<>>
         THEN UrlUnparse[u.scheme, b.netloc, b.path, b.params,
                         IF u.query = <<>> THEN b.query ELSE u.query,
                         u.fragment]
    ELSE UrlUnparse[u.scheme, b.netloc, ResolvePath[b.path, u.path],
                    u.params, u.query, u.fragment]

UrlJoinBase[url \in Str, b \in Parsed] == UrlJoinParsed[url, b, UrlParse[url, b.scheme]]

\* Whether urllib.parse.urljoin(base, url) returns (it raises ValueError
\* when parsing base or url does).
UrlJoinValid[base \in Str, url \in Str] ==
    \/ base = <<>>
    \/ url = <<>>
    \/ /\ UrlParse[base, <<>>].valid
       /\ UrlParse[url, UrlParse[base, <<>>].scheme].valid

\* urllib.parse.urljoin(base, url), where it returns.
UrlJoin[base \in Str, url \in Str] ==
    IF base = <<>> THEN url
    ELSE IF url = <<>> THEN base
    ELSE UrlJoinBase[url, UrlParse[base, <<>>]]

----------------------------------------------------------------------------
(* The crawler object: WebsiteGraphCrawler.__init__ *)

VARIABLES
    start_url,      \* self.start_url
    max_pages,      \* self.max_pages: Unlimited (None) or Cap(n)
    max_depth,      \* self.max_depth
    ignore_paths,   \* self.ignore_paths: list of patterns
    robots_parser,  \* self.robots_parser: NoRobots (None) or a RobotParser
    site,           \* the web site the HTTP requests are answered from
    delay,          \* self.delay, in milliseconds
    graph_nodes,    \* self.graph nodes: node id -> attribute dict
    graph_edges,    \* self.graph edges: set of <<source id, target id>>
    url_to_id,      \* self.url_to_id
    next_id,        \* self.next_id
    visited,        \* self.visited
    queue,          \* self.queue: deque of <<url, depth>>
    pc,             \* position of crawl(): "loop" or "done"
    visit_log,      \* the urls passed to self.visited.add, in call order
    fetch_log,      \* the calls of self._fetch_page, in call order
    sleep_log,      \* the calls of time.sleep in crawl(), in call order
    call,           \* a single method call on the object: the method, its arguments
    ret,            \* the values the calls of `call` returned, in call order
    csv_files,      \* <<>>, or the nodes and edges CSV files save_csv wrote
    json_file,      \* <<>>, or the JSON document save_json wrote
    disk,           \* generate_links: the content files, path -> content
    links_graph     \* generate_links: the graph files main wrote

vars == << start_url, max_pages, max_depth, ignore_paths, robots_parser, site,
           delay, graph_nodes, graph_edges, url_to_id, next_id, visited, queue,
           pc, visit_log, fetch_log, sleep_log, call, ret, csv_files, json_file,
           disk, links_graph >>

config == << start_url, max_pages, max_depth, ignore_paths, robots_parser, site,
             delay >>

\* The variables of a single method call, which crawl() leaves alone.
unit == << call, ret >>

\* The files the exporters write, which crawl() leaves alone.
files == << csv_files, json_file, disk, links_graph >>

\* The files generate_links reads and writes.
links_files == << disk, links_graph >>

\* max_pages is Optional[int]: None, or an int.
Unlimited == <<>>

Cap(n) == <<n>>

\* self.parsed_start = urllib.parse.urlparse(start_url)
ParsedStart == UrlParse[start_url, <<>>]

\* self.base_domain = f"{scheme}://{netloc}"
BaseDomain == ParsedStart.scheme \o <<":", "/", "/">> \o ParsedStart.netloc

----------------------------------------------------------------------------
(* _should_ignore_url *)

\* The body of the loop over self.ignore_paths for one pattern.
\* Mutant of PatternMatchesSlashed: the wildcard handling is left out, only
\* the exact comparison remains.
PatternMatchesExactOnly(path, path_normalized, pattern) ==
    \/ path_normalized = (IF pattern # Slash THEN RStrip[pattern, "/"] ELSE pattern)
    \/ path = pattern

\* The pattern, once it starts with "/": prefix match, fnmatch, exact match.
PatternMatchesSlashed(path, path_normalized, pattern) ==
    \/ /\ EndsWith[pattern, <<"*">>]
       /\ \/ path_normalized = RStrip[RStrip[pattern, "*"], "/"]
          \/ StartsWith[path_normalized,
                        RStrip[RStrip[pattern, "*"], "/"] \o Slash]
    \/ FnMatch[path, pattern]
    \/ FnMatch[path_normalized, pattern]
    \/ path_normalized = (IF pattern # Slash THEN RStrip[pattern, "/"] ELSE pattern)
    \/ path = pattern

PatternMatches(path, path_normalized, pattern_original) ==
    /\ pattern_original # <<>>
    /\ PatternMatchesSlashed(path, path_normalized,
                             IF StartsWith[pattern_original, Slash]
                             THEN pattern_original
                             ELSE Slash \o pattern_original)

\* The part of _should_ignore_url after `path = parsed.path`.
ShouldIgnorePath(path) ==
    \E i \in 1..Len(ignore_paths) :
        PatternMatches(path,
                       IF path # Slash THEN RStrip[path, "/"] ELSE path,
                       ignore_paths[i])

ShouldIgnoreParsed(parsed) ==
    /\ parsed.valid
    /\ ShouldIgnorePath(IF StartsWith[parsed.path, Slash]
                        THEN parsed.path
                        ELSE Slash \o parsed.path)

ShouldIgnoreUrl(url) ==
    /\ ignore_paths # <<>>
    /\ ShouldIgnoreParsed(UrlParse[url, <<>>])

----------------------------------------------------------------------------
(* _normalize_url *)

\* Mutant of StripTrailingSlash: normalized[:-1], one slash only.
StripTrailingSlashOnce(normalized) ==
    IF EndsWith[normalized, Slash] /\ normalized # BaseDomain \o Slash
    THEN SubSeq(normalized, 1, Len(normalized) - 1)
    ELSE normalized

\* The trailing-slash step: normalized.rstrip("/") unless it is the root.
StripTrailingSlash(normalized) ==
    IF EndsWith[normalized, Slash] /\ normalized # BaseDomain \o Slash
    THEN RStrip[normalized, "/"]
    ELSE normalized

\* The ignore check and the trailing-slash step, on the url without its
\* fragment.
NormalizeUnparsed(normalized) ==
    IF ShouldIgnoreUrl(normalized) THEN None
    ELSE StripTrailingSlash(normalized)

\* Mutant of NormalizeParsed: the same-domain test is left out.
NormalizeParsedAnyDomain(parsed) ==
    IF ~ parsed.valid THEN None
    ELSE NormalizeUnparsed(UrlUnparse[parsed.scheme, parsed.netloc, parsed.path,
                                      parsed.params, parsed.query, <<>>])

\* _normalize_url after `parsed = urlparse(urljoin(base_url, url))`.
NormalizeParsed(parsed) ==
    IF ~ parsed.valid THEN None
    ELSE IF parsed.netloc # ParsedStart.netloc THEN None
    ELSE NormalizeUnparsed(UrlUnparse[parsed.scheme, parsed.netloc, parsed.path,
                                      parsed.params, parsed.query, <<>>])

NormalizeUrl(url, base_url) ==
    IF ~ UrlJoinValid[base_url, url] THEN None
    ELSE NormalizeParsed(UrlParse[UrlJoin[base_url, url], <<>>])

----------------------------------------------------------------------------
(* The web: what the HTTP server of x.test holds.  An HTML document is a   *)
(* record: its <title> text (None when it has no title) and its <a href>   *)
(* tags, each with the href value and the class attributes of the         *)
(* <footer> elements the tag sits inside.                                  *)

Base == <<"https", ":", "/", "/", "x.test">>

Root == Base \o Slash

\* An <a href> tag outside every <footer>.
A(href) == [href |-> href, footers |-> <<>>]

\* An <a href> tag inside <footer> elements; footers lists the class
\* attribute of each of them, the nearest ancestor first.
InFooter(href, footers) == [href |-> href, footers |-> footers]

\* footer_parent = tag.find_parent('footer'), the nearest <footer> ancestor;
\* if footer_parent and 'post-footer' in footer_parent.get('class', [])
InPostFooter(tag) ==
    tag.footers # <<>> /\ "post-footer" \in Head(tag.footers)

Doc(title, anchors) == [kind |-> "html", title |-> title, anchors |-> anchors]

\* response.text == "" (an empty body)
EmptyDoc == [kind |-> "empty", title |-> None, anchors |-> {}]

\* html is None
NoneDoc == [kind |-> "None", title |-> None, anchors |-> {}]

\* The 3-page site: / links to /about and /blog, /blog links back to /.
Fixture ==
    ( <<"/">>          :> Doc(<<"Home">>, {A(<<"/", "about">>), A(<<"/", "blog">>)}) ) @@
    ( <<"/", "about">> :> Doc(<<"About">>, {}) ) @@
    ( <<"/", "blog">>  :> Doc(<<"Blog">>, {A(<<"/">>)}) )

\* A larger site with off-domain, ignored, fragment, trailing-slash,
\* relative, malformed, footer and robots-disallowed links.
BlogSite ==
    ( <<"/">> :>
        Doc(<<"Home">>,
            { A(<<"/", "about">>), A(<<"/", "blog", "/">>),
              A(<<"/", "about", "#", "team">>),
              A(<<"https", ":", "/", "/", "other.test", "/", "x">>),
              A(<<"mailto", ":", "me">>) }) ) @@
    ( <<"/", "about">> :>
        Doc(None,
            { A(<<"/">>), A(<<"#", "top">>),
              A(<<"http", ":", "/", "/", "[", "bad", "/", "x">>),
              A(<<"/", "private", "/", "page">>),
              A(<<"/", "blog", "/", "post">>),
              InFooter(<<"/", "hidden">>, << {"post-footer"} >>) }) ) @@
    ( <<"/", "blog">> :>
        Doc(<<"Blog">>,
            { A(<<"/">>), A(<<"/", "blog", "/", "post">>),
              A(<<"/", "secret">>) }) ) @@
    ( <<"/", "blog", "/", "post">> :>
        Doc(<<"Post">>, { A(<<"/", "about">>), A(<<"deep">>) }) ) @@
    ( <<"/", "blog", "/", "deep">> :>
        Doc(<<"Deep">>,
            { A(<<"/", "blog", "/", "deeper">>),
              InFooter(<<"/", "blog", "/", "related">>,
                       << {"card"}, {"post-footer"} >>) }) ) @@
    ( <<"/", "secret">> :> Doc(<<"Secret">>, {}) ) @@
    ( <<"/", "private", "/", "page">> :> Doc(<<"Private">>, {}) )

Sites == {Fixture, BlogSite}

\* The document the server holds for a url: it routes on the path, with or
\* without trailing slashes; NoneDoc when it holds no such page.
RouteKey(path) == IF RStrip[path, "/"] = <<>> THEN Slash ELSE RStrip[path, "/"]

ServerPage(url) ==
    IF RouteKey(UrlParse[url, <<>>].path) \in DOMAIN site
    THEN site[RouteKey(UrlParse[url, <<>>].path)]
    ELSE NoneDoc

\* The outcomes requests.get(url) may have: a RequestException, or a
\* response with a final status code, a Content-Type and a body.
Statuses == {200, 304, 404}

\* requests.get raises a RequestException (connection error, timeout).
RequestFailed == [exc |-> TRUE, status |-> 200, html_type |-> FALSE, text |-> EmptyDoc]

ResponsesWith(url, statuses) ==
    { RequestFailed }
    \cup
    { [exc |-> FALSE, status |-> st, html_type |-> ht, text |-> body] :
        st \in statuses, ht \in BOOLEAN,
        body \in {EmptyDoc} \cup ({ServerPage(url)} \ {NoneDoc}) }

Responses(url) == ResponsesWith(url, Statuses)

----------------------------------------------------------------------------
(* Robots gate *)

\* A RobotFileParser object: the flags read() and parse() set and the
\* Disallow path prefixes of the "*" agent.  is_none marks Python's None,
\* where the crawler holds no parser.
RobotParser(disallow_all, allow_all, last_checked, rules) ==
    [ is_none |-> FALSE, disallow_all |-> disallow_all, allow_all |-> allow_all,
      last_checked |-> last_checked, rules |-> rules ]

\* self.robots_parser is None
NoRobots ==
    [ is_none |-> TRUE, disallow_all |-> FALSE, allow_all |-> FALSE,
      last_checked |-> FALSE, rules |-> <<>> ]

\* The Disallow lines of the robots.txt the site serves.
RobotsPolicy == << <<"/", "secret">> >>

\* What urlopen(robots_url) may do inside RobotFileParser.read(): raise an
\* error that is no HTTPError (URLError, timeout; exc), or answer with a
\* status; a body that does not decode raises as well (exc).
RobotsStatuses == {200, 403, 404, 503}

RobotsFetches ==
    { [exc |-> TRUE, status |-> 200] }
    \cup { [exc |-> FALSE, status |-> st] : st \in RobotsStatuses }

\* RobotFileParser.read() where it returns: 401 and 403 set disallow_all,
\* any other 4xx sets allow_all, any other HTTPError sets nothing, and a
\* body is parsed (parse() sets last_checked).
RobotsRead(status) ==
    IF status \in {401, 403} THEN RobotParser(TRUE, FALSE, FALSE, <<>>)
    ELSE IF status >= 400 /\ status < 500 THEN RobotParser(FALSE, TRUE, FALSE, <<>>)
    ELSE IF status >= 400 THEN RobotParser(FALSE, FALSE, FALSE, <<>>)
    ELSE RobotParser(FALSE, FALSE, TRUE, RobotsPolicy)

\* __init__ and _setup_robots_parser: self.robots_parser afterwards.
SetupRobotsParser(respect_robots, fetch) ==
    IF ~ respect_robots THEN NoRobots
    ELSE IF fetch.exc THEN NoRobots
    ELSE RobotsRead(fetch.status)

\* Entry.allowance(path) of the "*" entry: no Disallow prefix matches.
RobotsAllowsPath(policy, path) ==
    \A i \in 1..Len(policy) :
        ~ StartsWith[IF path = <<>> THEN Slash ELSE path, policy[i]]

\* Whether RobotFileParser.can_fetch("*", url) raises: it parses the url
\* once the flags are passed.
RobotsCanFetchRaises(parser, url) ==
    /\ ~ parser.disallow_all /\ ~ parser.allow_all /\ parser.last_checked
    /\ ~ UrlParse[url, <<>>].valid

\* RobotFileParser.can_fetch("*", url), where it returns.
RobotsCanFetch(parser, url) ==
    IF parser.disallow_all THEN FALSE
    ELSE IF parser.allow_all THEN TRUE
    ELSE IF ~ parser.last_checked THEN FALSE
    ELSE RobotsAllowsPath(parser.rules, UrlParse[url, <<>>].path)

\* _can_fetch
CanFetch(url) ==
    IF robots_parser.is_none THEN TRUE
    ELSE IF RobotsCanFetchRaises(robots_parser, url) THEN TRUE
    ELSE RobotsCanFetch(robots_parser, url)

----------------------------------------------------------------------------
(* Fetcher and HTML helpers *)

\* `not html`
Falsy(html) == html.kind # "html"

\* Mutant of RaisesForStatus: only server errors raise.
RaisesForStatusServerOnly(status) == status >= 500 /\ status < 600

\* response.raise_for_status() raises HTTPError
RaisesForStatus(status) == status >= 400 /\ status < 600

\* Mutant of IssuesRequest: the request is sent before the gate is asked.
IssuesRequestBeforeGate(url) == TRUE

\* Whether _fetch_page reaches requests.get: only past the robots gate.
IssuesRequest(url) == CanFetch(url)

\* _fetch_page, given what requests.get answers.
FetchPage(url, resp) ==
    IF ~ CanFetch(url) THEN NoneDoc
    ELSE IF resp.exc THEN NoneDoc
    ELSE IF RaisesForStatus(resp.status) THEN NoneDoc
    ELSE IF ~ resp.html_type THEN NoneDoc
    ELSE resp.text

\* _extract_title
ExtractTitle(html) == html.title

\* Mutant of KeepLink: links to visited pages are kept.
KeepLinkIgnoresVisited(normalized, vis) ==
    normalized # None /\ normalized # <<>>

\* The filter of _extract_links on a normalized href; vis is self.visited
\* at the time of the call.
KeepLink(normalized, vis) ==
    normalized # None /\ normalized # <<>> /\ normalized \notin vis

\* _extract_links
ExtractLinks(html, base_url, vis) ==
    { NormalizeUrl(a.href, base_url) :
        a \in { t \in html.anchors :
                  /\ ~ InPostFooter(t)
                  /\ KeepLink(NormalizeUrl(t.href, base_url), vis) } }

----------------------------------------------------------------------------
(* crawl() *)

\* Bounds of the configurations explored.
MaxDepthBound == 2

MaxPagesBound == 2

\* The default of max_depth.
DefaultMaxDepth == 5

\* No single method call is under way: crawl() runs.
NoCall == [op |-> "none", href |-> <<>>, base_url |-> <<>>, resp |-> RequestFailed]

\* The start urls explored: the root, the root without its slash, a page
\* with a trailing slash and a page under /private.  The two start urls
\* that are not in canonical form are explored on the 3-page site.
StartUrls(s) ==
    IF s = Fixture
    THEN { Root,
           Base,
           Base \o <<"/", "blog", "/">>,
           Base \o <<"/", "private", "/", "page">> }
    ELSE { Root,
           Base \o <<"/", "private", "/", "page">> }

\* The answers to the robots.txt request explored: all of them on the
\* 3-page site; an error, a policy and a server error on the larger site.
RobotsLoads(s) ==
    IF s = Fixture THEN RobotsFetches
    ELSE { f \in RobotsFetches : f.exc \/ f.status \in {200, 503} }

IgnoreLists == { <<>>, << <<"/", "private", "*">> >> }

\* delay: float = 0.5, in milliseconds.
DefaultDelay == 500

\* The delays explored: the default, and on the 3-page site crawled from
\* its root also --delay 0.
Delays(s, start) ==
    IF s = Fixture /\ start = Root THEN {0, DefaultDelay} ELSE {DefaultDelay}

Init ==
    /\ site \in Sites
    /\ start_url \in StartUrls(site)
    /\ max_pages \in {Unlimited} \cup { Cap(n) : n \in 0..MaxPagesBound }
    /\ max_depth \in (-1..MaxDepthBound) \cup {DefaultMaxDepth}
    /\ ignore_paths \in IgnoreLists
    /\ robots_parser \in { SetupRobotsParser(r, f) :
                             r \in BOOLEAN, f \in RobotsLoads(site) }
    /\ delay \in Delays(site, start_url)
    /\ graph_nodes = <<>>
    /\ graph_edges = {}
    /\ url_to_id = <<>>
    /\ next_id = 0
    /\ visited = {}
    /\ queue = << <<start_url, 0>> >>
    /\ pc = "loop"
    /\ visit_log = <<>>
    /\ fetch_log = <<>>
    /\ sleep_log = <<>>
    /\ call = NoCall
    /\ ret = <<>>
    /\ csv_files = <<>>
    /\ json_file = <<>>
    /\ disk = <<>>
    /\ links_graph = {}

\* Mutant of LoopCond: the page cap is compared with <=.
LoopCondOffByOne ==
    /\ queue # <<>>
    /\ IF max_pages = Unlimited THEN TRUE
       ELSE Cardinality(visited) <= max_pages[1]

\* Mutant of LoopCond: the page cap is compared with the number of pages
\* in the graph.
LoopCondCountsPages ==
    /\ queue # <<>>
    /\ IF max_pages = Unlimited THEN TRUE
       ELSE Cardinality({ n \in DOMAIN graph_nodes :
                            "depth" \in DOMAIN graph_nodes[n] }) < max_pages[1]

\* The while condition.
LoopCond ==
    /\ queue # <<>>
    /\ IF max_pages = Unlimited THEN TRUE
       ELSE Cardinality(visited) < max_pages[1]

\* Mutant of PopLeft: the head is read but not removed.
PopLeftPeek(q) == q

\* self.queue after popleft()
PopLeft(q) == Tail(q)

\* Mutant of AlreadyVisited: the visited test is left out.
AlreadyVisitedNever(url) == FALSE

\* `if url in self.visited: continue`
AlreadyVisited(url) == url \in visited

\* Mutant of ShouldEnqueue: the depth of the link is compared with <.
ShouldEnqueueTooShallow(link, depth, vis) ==
    link \notin vis /\ depth + 1 < max_depth

\* Mutant of ShouldEnqueue: the depth is compared with <=.
ShouldEnqueueOffByOne(link, depth, vis) == link \notin vis /\ depth <= max_depth

\* `if link not in self.visited and depth < self.max_depth`
ShouldEnqueue(link, depth, vis) == link \notin vis /\ depth < max_depth

\* Mutant of GetNodeId: a new id on every call, known url or not.
GetNodeIdFresh(g, url) ==
    [id |-> g.next_id,
     g  |-> [g EXCEPT !.url_to_id = (url :> g.next_id) @@ g.url_to_id,
                      !.next_id = g.next_id + 1]]

\* _get_node_id on a graph-building state g: the id, and g with the id
\* assigned.
GetNodeId(g, url) ==
    IF url \in DOMAIN g.url_to_id
    THEN [id |-> g.url_to_id[url], g |-> g]
    ELSE [id |-> g.next_id,
          g  |-> [g EXCEPT !.url_to_id = (url :> g.next_id) @@ g.url_to_id,
                           !.next_id = g.next_id + 1]]

\* networkx add_node(n, **attrs): new attributes override, others stay.
AddNode(nodes, n, attrs) ==
    IF n \in DOMAIN nodes
    THEN [nodes EXCEPT ![n] = attrs @@ nodes[n]]
    ELSE (n :> attrs) @@ nodes

\* Mutant of LinkStep: add_edge is moved into the `if` that enqueues.
LinkStepEdgeWhenQueued(g, link, node_id, depth, vis) ==
    IF ShouldIgnoreUrl(link) THEN g
    ELSE
      LET t  == GetNodeId(g, link)
          g2 == IF t.id \notin DOMAIN t.g.nodes
                THEN [t.g EXCEPT !.nodes = AddNode(t.g.nodes, t.id,
                                              [label |-> link, url |-> link])]
                ELSE t.g
      IN  IF ShouldEnqueue(link, depth, vis)
          THEN [g2 EXCEPT !.edges = g2.edges \cup {<<node_id, t.id>>},
                          !.queue = Append(g2.queue, <<link, depth + 1>>)]
          ELSE g2

\* One pass of the body of `for link in links`.
LinkStep(g, link, node_id, depth, vis) ==
    IF ShouldIgnoreUrl(link) THEN g
    ELSE
      LET t  == GetNodeId(g, link)
          g1 == t.g
          g2 == IF t.id \notin DOMAIN g1.nodes
                THEN [g1 EXCEPT !.nodes = AddNode(g1.nodes, t.id,
                                             [label |-> link, url |-> link])]
                ELSE g1
          g3 == [g2 EXCEPT !.edges = g2.edges \cup {<<node_id, t.id>>}]
      IN  IF ShouldEnqueue(link, depth, vis)
          THEN [g3 EXCEPT !.queue = Append(g3.queue, <<link, depth + 1>>)]
          ELSE g3

\* The whole `for link in links` loop, links taken in the given order.
RECURSIVE AddLinks(_, _, _, _, _)
AddLinks(g, order, node_id, depth, vis) ==
    IF order = <<>> THEN g
    ELSE AddLinks(LinkStep(g, Head(order), node_id, depth, vis),
                  Tail(order), node_id, depth, vis)

\* The orders in which `for link in links` may iterate over a set.
Orders(links) ==
    { o \in [1..Cardinality(links) -> links] :
        \A i, j \in 1..Cardinality(links) : i # j => o[i] # o[j] }

\* `if depth > self.max_depth: continue`
SkipTooDeep ==
    /\ pc = "loop" /\ LoopCond
    /\ Head(queue)[2] > max_depth
    /\ queue' = PopLeft(queue)
    /\ UNCHANGED << config, unit, files, sleep_log, graph_nodes, graph_edges, url_to_id, next_id,
                    visited, pc, visit_log, fetch_log >>

\* `if url in self.visited: continue`
SkipVisited ==
    /\ pc = "loop" /\ LoopCond
    /\ Head(queue)[2] <= max_depth
    /\ AlreadyVisited(Head(queue)[1])
    /\ queue' = PopLeft(queue)
    /\ UNCHANGED << config, unit, files, sleep_log, graph_nodes, graph_edges, url_to_id, next_id,
                    visited, pc, visit_log, fetch_log >>

\* `if self._should_ignore_url(url): self.visited.add(url); continue`
SkipIgnored ==
    /\ pc = "loop" /\ LoopCond
    /\ Head(queue)[2] <= max_depth
    /\ ~ AlreadyVisited(Head(queue)[1])
    /\ ShouldIgnoreUrl(Head(queue)[1])
    /\ visited' = visited \cup {Head(queue)[1]}
    /\ visit_log' = Append(visit_log, Head(queue)[1])
    /\ queue' = PopLeft(queue)
    /\ UNCHANGED << config, unit, files, sleep_log, graph_nodes, graph_edges, url_to_id, next_id,
                    pc, fetch_log >>

\* Mutant of FetchFailed: the node id is looked up before `if not html`.
FetchFailedAllocatesId ==
    /\ pc = "loop" /\ LoopCond
    /\ Head(queue)[2] <= max_depth
    /\ ~ AlreadyVisited(Head(queue)[1])
    /\ ~ ShouldIgnoreUrl(Head(queue)[1])
    /\ LET url == Head(queue)[1]
           depth == Head(queue)[2]
           n == GetNodeId([url_to_id |-> url_to_id, next_id |-> next_id,
                           nodes |-> graph_nodes, edges |-> graph_edges,
                           queue |-> PopLeft(queue)], url)
       IN  \E resp \in Responses(url) :
             /\ Falsy(FetchPage(url, resp))
             /\ visited' = visited \cup {url}
             /\ visit_log' = Append(visit_log, url)
             /\ fetch_log' = Append(fetch_log,
                    [url |-> url, depth |-> depth,
                     request |-> IssuesRequest(url), html |-> FALSE])
             /\ queue' = PopLeft(queue)
             /\ url_to_id' = n.g.url_to_id
             /\ next_id' = n.g.next_id
    /\ UNCHANGED << config, unit, files, sleep_log, graph_nodes, graph_edges, pc >>

\* The url is marked visited and fetched; `if not html: continue`
FetchFailed ==
    /\ pc = "loop" /\ LoopCond
    /\ Head(queue)[2] <= max_depth
    /\ ~ AlreadyVisited(Head(queue)[1])
    /\ ~ ShouldIgnoreUrl(Head(queue)[1])
    /\ LET url == Head(queue)[1]
           depth == Head(queue)[2]
       IN  \E resp \in Responses(url) :
             /\ Falsy(FetchPage(url, resp))
             /\ visited' = visited \cup {url}
             /\ visit_log' = Append(visit_log, url)
             /\ fetch_log' = Append(fetch_log,
                    [url |-> url, depth |-> depth,
                     request |-> IssuesRequest(url), html |-> FALSE])
             /\ queue' = PopLeft(queue)
    /\ UNCHANGED << config, unit, files, sleep_log, graph_nodes, graph_edges, url_to_id, next_id, pc >>

\* if self.delay > 0: time.sleep(self.delay), after the calls of
\* self._fetch_page in `fetches`.
RateLimit(log, fetches) ==
    IF delay > 0
    THEN Append(log, [secs |-> delay, fetches |-> Len(fetches)])
    ELSE log

\* The url is marked visited and fetched; its node is added or upgraded
\* and its links become nodes, edges and queue entries.
ProcessPage ==
    /\ pc = "loop" /\ LoopCond
    /\ Head(queue)[2] <= max_depth
    /\ ~ AlreadyVisited(Head(queue)[1])
    /\ ~ ShouldIgnoreUrl(Head(queue)[1])
    /\ LET url == Head(queue)[1]
           depth == Head(queue)[2]
           vis == visited \cup {url}
       IN  \E resp \in Responses(url) :
             LET html  == FetchPage(url, resp)
                 g0    == [url_to_id |-> url_to_id, next_id |-> next_id,
                           nodes |-> graph_nodes, edges |-> graph_edges,
                           queue |-> PopLeft(queue)]
                 n     == GetNodeId(g0, url)
                 title == ExtractTitle(html)
                 label == IF title # None THEN title ELSE url
                 g1    == [n.g EXCEPT !.nodes = AddNode(n.g.nodes, n.id,
                              [label |-> label, url |-> url,
                               depth |-> depth, title |-> title])]
                 links == ExtractLinks(html, url, vis)
             IN  /\ ~ Falsy(html)
                 /\ \E order \in Orders(links) :
                      LET g == AddLinks(g1, order, n.id, depth, vis)
                      IN  /\ url_to_id' = g.url_to_id
                          /\ next_id' = g.next_id
                          /\ graph_nodes' = g.nodes
                          /\ graph_edges' = g.edges
                          /\ queue' = g.queue
                 /\ visited' = vis
                 /\ visit_log' = Append(visit_log, url)
                 /\ fetch_log' = Append(fetch_log,
                        [url |-> url, depth |-> depth,
                         request |-> IssuesRequest(url), html |-> TRUE])
                 /\ sleep_log' = RateLimit(sleep_log, fetch_log')
    /\ UNCHANGED << config, unit, files, pc >>

\* The while condition is false: crawl() returns.
Finish ==
    /\ pc = "loop" /\ ~ LoopCond
    /\ pc' = "done"
    /\ UNCHANGED << config, unit, files, sleep_log, graph_nodes, graph_edges, url_to_id, next_id,
                    visited, queue, visit_log, fetch_log >>

----------------------------------------------------------------------------
(* save_csv and save_json *)

\* The url an exporter gives a node whose url attribute is missing or
\* empty: the key of url_to_id for the node, else the label.
FallbackUrl(node_data, n) ==
    IF \E u \in DOMAIN url_to_id : url_to_id[u] = n
    THEN CHOOSE u \in DOMAIN url_to_id : url_to_id[u] = n
    ELSE node_data.label

\* "Ensure all nodes have required attributes before exporting", for one
\* node: its attribute dict afterwards.
EnsureNodeAttributes(node_data, n) ==
    LET url == IF node_data.url # <<>> THEN node_data.url
               ELSE FallbackUrl(node_data, n)
        d1  == [node_data EXCEPT !.url = url,
                                 !.label = IF @ = <<>> THEN url ELSE @]
    IN  IF "depth" \in DOMAIN d1 THEN d1 ELSE d1 @@ [depth |-> 0]

\* The loop over self.graph.nodes() that opens both exporters.
EnsureAttributes(nodes) ==
    [ n \in DOMAIN nodes |-> EnsureNodeAttributes(nodes[n], n) ]

\* str(n) of a non-negative int, as csv.writer writes a number cell.
IntStr[n \in Nat] ==
    LET digit == <<"0", "1", "2", "3", "4", "5", "6", "7", "8", "9">>
    IN  IF n < 10 THEN << digit[n + 1] >>
        ELSE IntStr[n \div 10] \o << digit[(n % 10) + 1] >>

\* The url an exporter writes for a node: its url attribute, else the
\* fallback.
ExportUrl(node_data, n) ==
    IF node_data.url # <<>> THEN node_data.url ELSE FallbackUrl(node_data, n)

\* node_data.get('depth', 0)
ExportDepth(node_data) ==
    IF "depth" \in DOMAIN node_data THEN node_data.depth ELSE 0

\* node_data.get('label', url)
ExportLabel(node_data, url) ==
    IF "label" \in DOMAIN node_data THEN node_data.label ELSE url

\* `if title:` on node_data.get('title')
HasTitle(node_data) ==
    /\ "title" \in DOMAIN node_data
    /\ node_data.title # None
    /\ node_data.title # <<>>

\* Mutant of CsvNodeRow: the label is written into the id column.
CsvNodeRowLabelAsId(node_data, n) ==
    LET url == ExportUrl(node_data, n)
    IN  [id |-> ExportLabel(node_data, url),
         label |-> ExportLabel(node_data, url),
         url |-> url,
         depth |-> IntStr[ExportDepth(node_data)]]

\* One row of the nodes CSV: id, label, url, depth.
CsvNodeRow(node_data, n) ==
    LET url == ExportUrl(node_data, n)
    IN  [id |-> url,
         label |-> ExportLabel(node_data, url),
         url |-> url,
         depth |-> IntStr[ExportDepth(node_data)]]

\* Mutant of JsonNode: the title key is written for every node.
JsonNodeAlwaysTitle(node_data, n) ==
    LET url == ExportUrl(node_data, n)
        data == [id |-> url,
                 label |-> ExportLabel(node_data, url),
                 url |-> url,
                 depth |-> ExportDepth(node_data)]
    IN  [data |-> data @@ [title |-> IF "title" \in DOMAIN node_data
                                     THEN node_data.title ELSE None]]

\* One element of the JSON nodes array; the title key only when there is
\* a title.
JsonNode(node_data, n) ==
    LET url == ExportUrl(node_data, n)
        data == [id |-> url,
                 label |-> ExportLabel(node_data, url),
                 url |-> url,
                 depth |-> ExportDepth(node_data)]
    IN  [data |-> IF HasTitle(node_data)
                  THEN data @@ [title |-> node_data.title]
                  ELSE data]

\* One row of the edges CSV, and the data of one element of the JSON edges
\* array.
EdgeRow(nodes, e) ==
    [source |-> ExportUrl(nodes[e[1]], e[1]),
     target |-> ExportUrl(nodes[e[2]], e[2]),
     interaction |-> <<"Directed">>]

\* self.graph.nodes() iterates in insertion order, which is id order.
RECURSIVE NodeOrder(_)
NodeOrder(ids) ==
    IF ids = {} THEN <<>>
    ELSE LET first == CHOOSE n \in ids : \A m \in ids : n <= m
         IN  <<first>> \o NodeOrder(ids \ {first})

\* save_csv(base_path), called once crawl() has returned.  The rows of the
\* edges file are kept as a set.
SaveCsv ==
    /\ pc \in {"done", "saved"}
    /\ LET nodes == EnsureAttributes(graph_nodes)
           order == NodeOrder(DOMAIN nodes)
       IN  /\ graph_nodes' = nodes
           /\ csv_files' =
                << [nodes |-> [ i \in DOMAIN order |->
                                  CsvNodeRow(nodes[order[i]], order[i]) ],
                    edges |-> { EdgeRow(nodes, e) : e \in graph_edges }] >>
    /\ pc' = "saved"
    /\ UNCHANGED << config, unit, json_file, links_files, sleep_log, graph_edges, url_to_id, next_id,
                    visited, queue, visit_log, fetch_log >>

\* save_json(output_path), called once crawl() has returned.  The elements
\* of the edges array are kept as a set.
SaveJson ==
    /\ pc \in {"done", "saved"}
    /\ LET nodes == EnsureAttributes(graph_nodes)
           order == NodeOrder(DOMAIN nodes)
       IN  /\ graph_nodes' = nodes
           /\ json_file' =
                << [nodes |-> [ i \in DOMAIN order |->
                                  JsonNode(nodes[order[i]], order[i]) ],
                    edges |-> { [data |-> EdgeRow(nodes, e)] :
                                  e \in graph_edges }] >>
    /\ pc' = "saved"
    /\ UNCHANGED << config, unit, csv_files, links_files, sleep_log, graph_edges, url_to_id, next_id,
                    visited, queue, visit_log, fetch_log >>

Next ==
    \/ SkipTooDeep
    \/ SkipVisited
    \/ SkipIgnored
    \/ FetchFailed
    \/ ProcessPage
    \/ Finish
    \/ SaveCsv
    \/ SaveJson

Spec == Init /\ [][Next]_vars

\* crawl() is sequential code: whenever a step of it is possible one is
\* taken.
Crawl ==
    \/ SkipTooDeep
    \/ SkipVisited
    \/ SkipIgnored
    \/ FetchFailed
    \/ ProcessPage
    \/ Finish

FairSpec == Spec /\ WF_vars(Crawl)

----------------------------------------------------------------------------
(* Single calls of _normalize_url and _fetch_page on a constructed object  *)

\* The hrefs and base urls _normalize_url is called with.
UnitHrefs ==
    { Base, Root, Base \o <<"/", "/">>,
      Base \o <<"/", "a">>, Base \o <<"/", "a", "/">>,
      Base \o <<"/", "a", "/", "/">>,
      Base \o <<"/", "a", "?", "q">>, Base \o <<"/", "a", "#", "f">>,
      Base \o <<"/", "private">>, Base \o <<"/", "blog", "/", "post">>,
      <<"http", ":", "/", "/", "x.test", "/", "a", "/">>,
      <<"https", ":", "/", "/", "other.test", "/", "a">>,
      <<"http", ":", "/", "/", "[", "bad", "/", "x">>,
      <<"/", "a">>, <<"a">>, <<"a", "/", "b", "/">>, <<"?", "q">>,
      <<"#", "f">>, <<>>, <<"mailto", ":", "me">> }

UnitBases == { Root, Base \o <<"/", "blog", "/", "post">> }

\* The ignore lists of the object: none, a prefix pattern, a literal path
\* and a wildcard pattern that ends with a slash.
UnitIgnoreLists ==
    IgnoreLists \cup { << <<"/", "a">> >>, << <<"/", "*", "/">> >> }

\* The final status codes of the responses _fetch_page is given.
UnitStatuses == {200, 204, 299, 300, 304, 399, 400, 404, 499, 500, 503, 599}

UnitUrls == { Root, Base \o <<"/", "about">>, Base \o <<"/", "secret">> }

NormalizeCalls ==
    { [op |-> "normalize", href |-> h, base_url |-> b, resp |-> RequestFailed] :
        h \in UnitHrefs, b \in UnitBases }

FetchCalls(s) ==
    { [op |-> "fetch", href |-> u, base_url |-> <<>>, resp |-> r] :
        u \in UnitUrls,
        r \in { [exc |-> x, status |-> st, html_type |-> ht, text |-> body] :
                  x \in {FALSE}, st \in UnitStatuses, ht \in BOOLEAN,
                  body \in {EmptyDoc, s[Slash]} } \cup {RequestFailed} }

\* The object after __init__, and the call made on it.
UnitInit ==
    /\ max_pages = Unlimited
    /\ max_depth = DefaultMaxDepth
    /\ delay = DefaultDelay
    /\ sleep_log = <<>>
    /\ \/ /\ site = Fixture
          /\ start_url \in StartUrls(site)
          /\ ignore_paths \in UnitIgnoreLists
          /\ robots_parser = NoRobots
          /\ call \in NormalizeCalls
       \/ /\ site \in Sites
          /\ start_url = Root
          /\ ignore_paths = <<>>
          /\ robots_parser \in { SetupRobotsParser(r, f) :
                                   r \in BOOLEAN, f \in RobotsFetches }
          /\ call \in FetchCalls(site)
    /\ graph_nodes = <<>>
    /\ graph_edges = {}
    /\ url_to_id = <<>>
    /\ next_id = 0
    /\ visited = {}
    /\ queue = <<>>
    /\ pc = "call"
    /\ visit_log = <<>>
    /\ fetch_log = <<>>
    /\ ret = <<>>
    /\ csv_files = <<>>
    /\ json_file = <<>>
    /\ disk = <<>>
    /\ links_graph = {}

crawler == << graph_nodes, graph_edges, url_to_id, next_id, visited, queue,
              visit_log, fetch_log, sleep_log >>

\* normalized = self._normalize_url(href, base_url)
UnitNormalize ==
    /\ pc = "call" /\ call.op = "normalize"
    /\ ret' = << NormalizeUrl(call.href, call.base_url) >>
    /\ pc' = "returned"
    /\ UNCHANGED << config, crawler, files, call >>

\* self._normalize_url(normalized, base_url), on the url the first call
\* returned
UnitNormalizeAgain ==
    /\ pc = "returned" /\ call.op = "normalize"
    /\ ret[1] # None
    /\ ret' = Append(ret, NormalizeUrl(ret[1], call.base_url))
    /\ pc' = "again"
    /\ UNCHANGED << config, crawler, files, call >>

\* self._normalize_url(href + "/", base_url)
UnitNormalizeSlashed ==
    /\ pc = "returned" /\ call.op = "normalize"
    /\ ret' = Append(ret, NormalizeUrl(call.href \o Slash, call.base_url))
    /\ pc' = "slashed"
    /\ UNCHANGED << config, crawler, files, call >>

\* html = self._fetch_page(url)
UnitFetchPage ==
    /\ pc = "call" /\ call.op = "fetch"
    /\ ret' = << FetchPage(call.href, call.resp) >>
    /\ pc' = "returned"
    /\ UNCHANGED << config, crawler, files, call >>

UnitNext ==
    \/ UnitNormalize
    \/ UnitNormalizeAgain
    \/ UnitNormalizeSlashed
    \/ UnitFetchPage

UnitSpec == UnitInit /\ [][UnitNext]_vars

----------------------------------------------------------------------------
(* generate_links.py.  A text (a path, a markdown file, the answer of the  *)
(* copilot CLI) is a sequence of tokens: a marker, a delimiter, a quote, a *)
(* newline, a word or a whole markdown link each count as one character.   *)

Blank == {" ", "\n"}

RECURSIVE LeftStrip(_)
LeftStrip(text) ==
    IF text # <<>> /\ Head(text) \in Blank THEN LeftStrip(Tail(text)) ELSE text

RECURSIVE RightStrip(_)
RightStrip(text) ==
    IF text # <<>> /\ text[Len(text)] \in Blank
    THEN RightStrip(SubSeq(text, 1, Len(text) - 1))
    ELSE text

\* str.strip()
StripText(text) == RightStrip(LeftStrip(text))

\* a in b, for two strings
IsIn(a, b) ==
    \E i \in 0..(Len(b) - Len(a)) : SubSeq(b, i + 1, i + Len(a)) = a

\* str(file_path).replace('\\', '/')
ReplaceBackslash(text) ==
    [ i \in DOMAIN text |-> IF text[i] = "\\" THEN "/" ELSE text[i] ]

\* file_path.name: the last component of the path
PathName(file_path) == << file_path[Len(file_path)] >>

\* The match of pattern1, ===FILE_START:(.+?)===\s*(.*?)\s*===FILE_END:\1===
\* that starts at position i of the response: the shortest path and then
\* the shortest content for which the closing marker repeats the path.  The
\* set is empty when there is no match at i.
MarkerMatches(response, i) ==
    LET Closers(j) ==
            { k \in (j + 1)..Len(response) :
                /\ response[k] = "===FILE_END:"
                /\ k + (j - i) <= Len(response)
                /\ SubSeq(response, k + 1, k + (j - i - 1))
                      = SubSeq(response, i + 1, j - 1)
                /\ response[k + (j - i)] = "===" }
        Openers ==
            { j \in (i + 2)..Len(response) :
                response[j] = "===" /\ Closers(j) # {} }
    IN  IF i > Len(response) \/ response[i] # "===FILE_START:" \/ Openers = {}
        THEN {}
        ELSE LET j == CHOOSE x \in Openers : \A y \in Openers : x <= y
                 k == CHOOSE x \in Closers(j) : \A y \in Closers(j) : x <= y
             IN  { [file_path_str |-> SubSeq(response, i + 1, j - 1),
                    content |-> StripText(SubSeq(response, j + 1, k - 1)),
                    next |-> k + (j - i) + 1] }

\* re.findall(pattern1, response, re.DOTALL), from position i on
RECURSIVE FindAllMarkers(_, _)
FindAllMarkers(response, i) ==
    IF i > Len(response) THEN <<>>
    ELSE IF MarkerMatches(response, i) = {}
         THEN FindAllMarkers(response, i + 1)
         ELSE LET m == CHOOSE x \in MarkerMatches(response, i) : TRUE
              IN  << [file_path_str |-> m.file_path_str, content |-> m.content] >>
                    \o FindAllMarkers(response, m.next)

\* The test of the inner loop of strategy 1 on one input file.
MatchesFile(file_path, file_path_str) ==
    \/ ReplaceBackslash(file_path) = file_path_str
    \/ IsIn(PathName(file_path), file_path_str)
    \/ IsIn(file_path, file_path_str)

\* updates[file_path] = content
SetUpdate(updates, file_path, content) ==
    [ f \in DOMAIN updates \cup {file_path} |->
        IF f = file_path THEN content ELSE updates[f] ]

\* Strategy 1: each match goes to the first input file that passes the test.
RECURSIVE Strategy1(_, _, _)
Strategy1(matches1, file_paths, updates) ==
    IF matches1 = <<>> THEN updates
    ELSE LET m == Head(matches1)
             hits == { n \in DOMAIN file_paths :
                         MatchesFile(file_paths[n], m.file_path_str) }
         IN  IF hits = {} THEN Strategy1(Tail(matches1), file_paths, updates)
             ELSE LET n == CHOOSE x \in hits : \A y \in hits : x <= y
                  IN  Strategy1(Tail(matches1), file_paths,
                          SetUpdate(updates, file_paths[n], StripText(m.content)))

\* Strategy 3: the whole answer is the one file's content when it starts
\* with front matter or is longer than 500 characters.
Strategy3(response, file_paths, updates) ==
    IF DOMAIN updates = {} /\ Len(file_paths) = 1
          /\ (\/ (StripText(response) # <<>> /\ Head(StripText(response)) = "---")
              \/ Len(StripText(response)) > 500)
    THEN SetUpdate(updates, file_paths[1], StripText(response))
    ELSE updates

\* parse_copilot_response.  The answers explored hold no `## File:` header
\* (strategy 2) and no section of more than 200 characters (strategy 4).
ParseCopilotResponse(response, file_paths) ==
    Strategy3(response, file_paths,
              Strategy1(FindAllMarkers(response, 1), file_paths, <<>>))

\* content.strip().startswith('---')
HasFrontMatter(content) ==
    StripText(content) # <<>> /\ Head(StripText(content)) = "---"

\* re.match(r'^---\s*\n(.*?)\n---', content, re.DOTALL): group 1, or None.
\* \s* is greedy and (.*?) lazy: the opening newline is the last one of the
\* blank run after --- that leaves a closing \n--- to be found.
FrontMatterMatch(content) ==
    LET Blanks(n) == \A m \in 2..n : content[m] \in Blank
        Closes(n) == { e \in (n + 1)..(Len(content) - 1) :
                         content[e] = "\n" /\ content[e + 1] = "---" }
        opens == { n \in 2..Len(content) :
                     Blanks(n) /\ content[n] = "\n" /\ Closes(n) # {} }
    IN  IF content = <<>> \/ Head(content) # "---" \/ opens = {} THEN None
        ELSE LET n == CHOOSE x \in opens : \A y \in opens : y <= x
                 e == CHOOSE x \in Closes(n) : \A y \in Closes(n) : x <= y
             IN  SubSeq(content, n + 1, e - 1)

Quotes == {"\"", "'"}

\* re.search(r'^title:\s*["\']?([^"\'\n]+)', frontmatter, re.MULTILINE),
\* group(1).strip(), or None: the first line that starts with title:, the
\* blanks and one optional quote after it, then the characters up to the
\* next quote or newline.  The titles explored are not empty.
TitleMatch(frontmatter) ==
    LET starts == { i \in DOMAIN frontmatter :
                      /\ frontmatter[i] = "title:"
                      /\ (i = 1 \/ frontmatter[i - 1] = "\n") }
        SkipBlanks(i) == CHOOSE p \in (i + 1)..(Len(frontmatter) + 1) :
                      /\ \A m \in (i + 1)..(p - 1) : frontmatter[m] \in Blank
                      /\ (p <= Len(frontmatter) => frontmatter[p] \notin Blank)
        CaptureFrom(i) == IF SkipBlanks(i) <= Len(frontmatter)
                        /\ frontmatter[SkipBlanks(i)] \in Quotes
                   THEN SkipBlanks(i) + 1 ELSE SkipBlanks(i)
        CaptureEnd(i) == CHOOSE q \in CaptureFrom(i)..(Len(frontmatter) + 1) :
                      /\ \A m \in CaptureFrom(i)..(q - 1) :
                            frontmatter[m] \notin Quotes \cup {"\n"}
                      /\ (q <= Len(frontmatter) =>
                            frontmatter[q] \in Quotes \cup {"\n"})
        found == { i \in starts : CaptureEnd(i) > CaptureFrom(i) }
    IN  IF found = {} THEN None
        ELSE LET i == CHOOSE x \in found : \A y \in found : x <= y
             IN  StripText(SubSeq(frontmatter, CaptureFrom(i), CaptureEnd(i) - 1))

\* The markdown links and the relref shortcodes a text can hold, each one
\* token.
MarkdownLinks == {"[a](/a)", "[b](/b)"}

RelrefLinks == {"{{< relref \"c\" >}}"}

\* set(re.findall(pattern, content)) for the patterns of
\* extract_links_from_diff
LinksOf(content) ==
    { content[i] : i \in { n \in DOMAIN content :
                              content[n] \in MarkdownLinks \cup RelrefLinks } }

\* extract_links_from_diff: the links of updated that original lacks
ExtractLinksFromDiff(original, updated) == LinksOf(updated) \ LinksOf(original)

\* The title check of main, step 1b: TRUE when the update is skipped.
TitleChanged(original_content, updated_content) ==
    /\ HasFrontMatter(original_content) /\ HasFrontMatter(updated_content)
    /\ FrontMatterMatch(original_content) # None
    /\ FrontMatterMatch(updated_content) # None
    /\ LET original_title == TitleMatch(FrontMatterMatch(original_content))
           updated_title  == TitleMatch(FrontMatterMatch(updated_content))
       IN  /\ original_title # None /\ updated_title # None
           /\ original_title # updated_title

\* One iteration of main's loop over files_content: what it decides for
\* file_path, given the content read from it and the parsed updates.
FileOutcome(file_path, original_content, updates) ==
    IF file_path \notin DOMAIN updates THEN "no update"
    ELSE LET updated_content == updates[file_path]
         IN  IF HasFrontMatter(original_content)
                    /\ ~ HasFrontMatter(updated_content)
             THEN "missing front matter"
             ELSE IF TitleChanged(original_content, updated_content)
             THEN "title changed"
             ELSE IF 2 * Len(updated_content) < Len(original_content)
             THEN "shorter"
             ELSE IF Len(updated_content) > Len(original_content) * 2
             THEN "longer"
             ELSE IF updated_content = original_content
             THEN "no changes"
             ELSE IF ExtractLinksFromDiff(original_content, updated_content) = {}
             THEN "no new links"
             ELSE "links added"

\* updates = get_github_copilot_response_batch(...): the parsed answer
Updates == ParseCopilotResponse(StripText(call.response), call.file_paths)

\* The content build_link_graph reads for file_path
GraphContent(file_path) ==
    IF file_path \in DOMAIN Updates THEN Updates[file_path]
    ELSE call.files_content[file_path]

\* The files save_csv_files and save_cytoscape_json write
GraphFileNames ==
    {"links_graph_nodes.csv", "links_graph_edges.csv", "links_graph.json"}

----------------------------------------------------------------------------
(* Runs of generate_links: one call of parse_copilot_response, or one run  *)
(* of main from the reading of the files on.                               *)

PathA == <<"a", "/", "index.md">>

PathB == <<"b", "/", "index.md">>

PathC == <<"a", "/", "post.md">>

PathOther == <<"x", "/", "other.md">>

\* The section of an answer for one file, in the format the prompt asks for
Block(file_path_str, content) ==
    <<"===FILE_START:">> \o file_path_str \o <<"===", "\n">> \o content
        \o <<"\n", "===FILE_END:">> \o file_path_str \o <<"===">>

FrontMatterOf(title) ==
    <<"---", "\n", "title:", " ">> \o title \o <<"\n", "---", "\n">>

TitleGuide == <<"\"", "Guide", "\"">>

TitleTricks == <<"\"", "Tricks", "\"">>

TitleBobsGuide == <<"\"", "Bob", "'", "s", " ", "Guide", "\"">>

TitleBobsTricks == <<"\"", "Bob", "'", "s", " ", "Tricks", "\"">>

Xs(n) == [ i \in 1..n |-> "x" ]

\* The files on disk explored: with front matter, with an apostrophe in
\* the title, without front matter.
Originals ==
    { FrontMatterOf(TitleGuide) \o Xs(2),
      FrontMatterOf(TitleBobsGuide) \o <<"x", "[a](/a)">>,
      Xs(3) \o <<"[a](/a)">> }

Bodies ==
    { Xs(2), Xs(2) \o <<"[b](/b)">>, <<"x", "[a](/a)">>,
      <<"x", "[a](/a)", "[b](/b)">>, <<"[b](/b)">>, <<"x", "[b](/b)">>,
      Xs(3) \o <<"[a](/a)">>, Xs(3) \o <<"[a](/a)", "[b](/b)">>,
      Xs(3) \o <<"[a](/a)", "{{< relref \"c\" >}}">>,
      Xs(7) \o <<"[b](/b)">>, Xs(8) \o <<"[b](/b)">>, Xs(14) \o <<"[b](/b)">> }

\* The contents an answer returns for a file.
UpdateDocs ==
    { FrontMatterOf(t) \o b :
        t \in {TitleGuide, TitleTricks, TitleBobsGuide, TitleBobsTricks},
        b \in Bodies }
    \cup Bodies
    \cup { <<"---", "\n", "date:", "\n", "---", "\n", "x", "x", "[b](/b)">>,
           <<"---", "[b](/b)">> }

AnswerPaths == {PathA, PathB, PathC, <<".", "/">> \o PathA, PathOther}

Answers ==
    { Block(p, <<"one">>) : p \in AnswerPaths }
    \cup { <<"Here:", "\n">> \o Block(pq[1], <<"one">>) \o <<"\n">>
                \o Block(pq[2], <<"two">>) :
             pq \in { x \in AnswerPaths \X AnswerPaths : x[1] # x[2] } }
    \cup { FrontMatterOf(TitleGuide) \o Xs(2), <<"sorry">>,
           <<"===FILE_START:">> \o PathA \o <<"===", "one", "===FILE_END:">>
               \o PathB \o <<"===">> }

ParseCalls ==
    { [op |-> "parse", file_paths |-> fs, response |-> r] :
        fs \in { <<PathA>>, <<PathA, PathB>>, <<PathB, PathA>>, <<PathA, PathC>> },
        r \in Answers }

MainCalls ==
    { [op |-> "main", dry_run |-> d, file_paths |-> <<PathA>>,
       files_content |-> (PathA :> o), response |-> r] :
        d \in BOOLEAN, o \in Originals,
        r \in { Block(PathA, u) : u \in UpdateDocs }
                \cup { Block(PathOther, Xs(2) \o <<"[b](/b)">>), <<"\n">> } }
    \cup
    { [op |-> "main", dry_run |-> d, file_paths |-> fs,
       files_content |-> (fs[1] :> FrontMatterOf(TitleGuide) \o Xs(2)
                             @@ fs[2] :> Xs(3) \o <<"[a](/a)">>),
       response |-> Block(p, u) \o <<"\n">> \o Block(q, v)] :
        d \in BOOLEAN, fs \in { <<PathA, PathC>>, <<PathA, PathB>> },
        p \in {PathA}, q \in {PathB, PathC},
        u \in { FrontMatterOf(TitleGuide) \o Xs(2) \o <<"[b](/b)">>,
                FrontMatterOf(TitleGuide) \o Xs(2) },
        v \in { Xs(3) \o <<"[a](/a)", "[b](/b)">>, Xs(3) \o <<"[a](/a)">> } }

\* The crawler is not used by generate_links.
LinksInit ==
    /\ site = Fixture
    /\ start_url = Root
    /\ max_pages = Unlimited
    /\ max_depth = DefaultMaxDepth
    /\ ignore_paths = <<>>
    /\ robots_parser = NoRobots
    /\ delay = DefaultDelay
    /\ graph_nodes = <<>>
    /\ graph_edges = {}
    /\ url_to_id = <<>>
    /\ next_id = 0
    /\ visited = {}
    /\ queue = <<>>
    /\ visit_log = <<>>
    /\ fetch_log = <<>>
    /\ sleep_log = <<>>
    /\ csv_files = <<>>
    /\ json_file = <<>>
    /\ call \in ParseCalls \cup MainCalls
    /\ disk = IF call.op = "main" THEN call.files_content ELSE <<>>
    /\ links_graph = {}
    /\ ret = <<>>
    /\ pc = "call"

\* updates = parse_copilot_response(response, file_paths)
LinksParse ==
    /\ pc = "call" /\ call.op = "parse"
    /\ ret' = << ParseCopilotResponse(call.response, call.file_paths) >>
    /\ pc' = "returned"
    /\ UNCHANGED << config, crawler, files, call >>

\* main reads the files and asks copilot; an empty answer ends the run.
MainRead ==
    /\ pc = "call" /\ call.op = "main"
    /\ pc' = IF StripText(call.response) = <<>> THEN "exit" ELSE "files"
    /\ UNCHANGED << config, crawler, files, call, ret >>

\* One iteration of the loop over files_content; ret lists the outcomes of
\* the iterations made.
MainFile ==
    /\ pc = "files" /\ Len(ret) < Len(call.file_paths)
    /\ LET file_path == call.file_paths[Len(ret) + 1]
           outcome == FileOutcome(file_path, call.files_content[file_path],
                                  Updates)
       IN  /\ ret' = Append(ret, outcome)
           /\ disk' = IF outcome = "links added" /\ ~ call.dry_run
                      THEN [disk EXCEPT ![file_path] = Updates[file_path]]
                      ELSE disk
    /\ UNCHANGED << config, crawler, csv_files, json_file, links_graph, call, pc >>

\* After the loop: the link graph is built and, unless dry_run, saved.
MainGraph ==
    /\ pc = "files" /\ Len(ret) = Len(call.file_paths)
    /\ LET changes_made ==
               Cardinality({ i \in DOMAIN ret : ret[i] = "links added" })
           edges == UNION { LinksOf(GraphContent(call.file_paths[i])) :
                              i \in DOMAIN call.file_paths }
       IN  links_graph' =
             IF (changes_made > 0 \/ DOMAIN Updates # {})
                   /\ edges # {} /\ ~ call.dry_run
             THEN GraphFileNames ELSE links_graph
    /\ pc' = "exit"
    /\ UNCHANGED << config, crawler, csv_files, json_file, disk, call, ret >>

LinksNext ==
    \/ LinksParse
    \/ MainRead
    \/ MainFile
    \/ MainGraph

LinksSpec == LinksInit /\ [][LinksNext]_vars

----------------------------------------------------------------------------
(* Vocabulary of the properties *)

About == Base \o <<"/", "about">>

Blog == Base \o <<"/", "blog">>

PrivatePage == Base \o <<"/", "private", "/", "page">>

PrivateStar == <<"/", "private", "*">>

Nodes == DOMAIN graph_nodes

NodeUrls == { graph_nodes[n].url : n \in Nodes }

EdgeUrls == { <<graph_nodes[e[1]].url, graph_nodes[e[2]].url>> : e \in graph_edges }

HasDepth(n) == "depth" \in DOMAIN graph_nodes[n]

\* The urls of the nodes that were fetched successfully, with their depth.
DepthOf == { <<graph_nodes[n].url, graph_nodes[n].depth>> : n \in {m \in Nodes : HasDepth(m)} }

FetchedUrls == { fetch_log[i].url : i \in DOMAIN fetch_log }

QueuedUrls == { queue[i][1] : i \in DOMAIN queue }

AllFetchesSucceeded == \A i \in DOMAIN fetch_log : fetch_log[i].html

\* The hrefs of a page the crawler looks at, normalized against the page.
NormalizedLinks(url) ==
    { NormalizeUrl(a.href, url) :
        a \in { t \in ServerPage(url).anchors : ~ InPostFooter(t) } } \ {None}

\* A crawl of the 3-page fixture from its root, over, every fetch answered.
FixtureCrawled ==
    /\ site = Fixture
    /\ start_url = Root
    /\ max_depth = DefaultMaxDepth
    /\ pc = "done"
    /\ AllFetchesSucceeded

----------------------------------------------------------------------------
(* C1: at-most-once fetch.  In every crawl each url is passed to           *)
(* visited.add at most once and to _fetch_page at most once, also when it  *)
(* was enqueued several times by different parent pages.                   *)
C1_AtMostOnceFetch ==
    /\ \A i, j \in DOMAIN visit_log : visit_log[i] = visit_log[j] => i = j
    /\ \A i, j \in DOMAIN fetch_log : fetch_log[i].url = fetch_log[j].url => i = j
    /\ visited = { visit_log[i] : i \in DOMAIN visit_log }

\* A url that two different pages link to was fetched and is still queued.
C1_Witness ==
    \E i \in DOMAIN queue :
        /\ queue[i][1] \in FetchedUrls
        /\ Cardinality({ e \in graph_edges : e[2] = url_to_id[queue[i][1]] }) >= 2

(* C2: round-trip fixture.  Crawling the 3-page site with max_depth = 5    *)
(* and max_pages = None ends with exactly 3 nodes and exactly the 3 edges  *)
(* / -> /about, / -> /blog, /blog -> /, with / at depth 0 and /about and   *)
(* /blog at depth 1.                                                       *)
C2_RoundTripFixture ==
    (FixtureCrawled /\ max_pages = Unlimited) =>
        /\ Cardinality(Nodes) = 3
        /\ NodeUrls = {Root, About, Blog}
        /\ Cardinality(graph_edges) = 3
        /\ EdgeUrls = { <<Root, About>>, <<Root, Blog>>, <<Blog, Root>> }
        /\ DepthOf = { <<Root, 0>>, <<About, 1>>, <<Blog, 1>> }

(* C3: the visited filter of link extraction is only an optimization:      *)
(* every successfully fetched page has an edge to every link on it that    *)
(* passes normalization, links to pages visited earlier included.          *)
C3_FilterIsOptimization ==
    \A n \in Nodes :
        HasDepth(n) =>
            \A l \in NormalizedLinks(graph_nodes[n].url) :
                /\ l \in DOMAIN url_to_id
                /\ <<n, url_to_id[l]>> \in graph_edges

(* C4: depth bound.  For max_depth >= 0 every queue entry has depth <=     *)
(* max_depth and no url is fetched at a greater depth; the links found on  *)
(* a page at depth = max_depth become nodes with an edge from the page,    *)
(* and that page enqueues nothing.                                         *)
PageProcessed ==
    /\ Len(fetch_log') = Len(fetch_log) + 1
    /\ fetch_log'[Len(fetch_log')].html

C4_DepthBound ==
    /\ [](max_depth >= 0 =>
            /\ \A i \in DOMAIN queue : queue[i][2] <= max_depth
            /\ \A i \in DOMAIN fetch_log : fetch_log[i].depth <= max_depth)
    /\ [][ (max_depth >= 0 /\ PageProcessed /\ Head(queue)[2] = max_depth) =>
            /\ queue' = Tail(queue)
            /\ \A l \in ExtractLinks(ServerPage(Head(queue)[1]), Head(queue)[1], visited') :
                  ~ ShouldIgnoreUrl(l) =>
                      /\ l \in DOMAIN url_to_id'
                      /\ url_to_id'[l] \in DOMAIN graph_nodes'
                      /\ <<url_to_id'[Head(queue)[1]], url_to_id'[l]>> \in graph_edges'
          ]_vars

\* The crawl is over and a page at depth = max_depth has an edge to a node
\* that was never fetched nor is queued.
C4_Witness ==
    /\ pc = "done" /\ max_depth >= 0
    /\ \E e \in graph_edges :
          /\ HasDepth(e[1]) /\ graph_nodes[e[1]].depth = max_depth
          /\ ~ HasDepth(e[2])
          /\ graph_nodes[e[2]].url \notin visited
          /\ graph_nodes[e[2]].url \notin QueuedUrls

(* C5: page cap.  With max_pages = n at most n urls are in the visited set *)
(* and at most n fetches were issued, while the graph may hold more than n *)
(* nodes; with max_pages = 1 on the 3-page fixture exactly one node has a  *)
(* depth and /about and /blog are discovered nodes only.                   *)
C5_PageCap ==
    /\ max_pages # Unlimited =>
          /\ Cardinality(visited) <= max_pages[1]
          /\ Len(visit_log) <= max_pages[1]
          /\ Len(fetch_log) <= max_pages[1]
    /\ (FixtureCrawled /\ max_pages = Cap(1)) =>
          /\ DepthOf = { <<Root, 0>> }
          /\ NodeUrls = {Root, About, Blog}
          /\ Cardinality(Nodes) = 3
          /\ EdgeUrls = { <<Root, About>>, <<Root, Blog>> }
          /\ visited = {Root}

\* The fixture crawled with max_pages = 1: one fetch, three nodes.
C5_Witness ==
    /\ FixtureCrawled /\ max_pages = Cap(1)
    /\ Len(fetch_log) = 1
    /\ Cardinality(Nodes) > max_pages[1]

(* C6: termination.  Whatever the fetch outcomes, the robots policy, the   *)
(* ignore patterns, max_pages and max_depth, the crawl loop eventually     *)
(* stops, with the queue empty or the visited count at the page cap.       *)
C6_Termination ==
    <>( /\ pc = "done"
        /\ \/ queue = <<>>
           \/ (max_pages # Unlimited /\ Cardinality(visited) >= max_pages[1]) )

\* The crawl stopped at the page cap with urls still queued, after a
\* failed fetch.
C6_Witness ==
    /\ pc = "done"
    /\ queue # <<>>
    /\ ~ AllFetchesSucceeded

(* C7: the graph holds no node and no edge endpoint whose url normalization *)
(* rejects: every node has the start url's host and matches no ignore      *)
(* pattern, every node but the start url's and every edge comes from a     *)
(* link that normalization accepted, and a link that fails normalization   *)
(* adds neither a node nor an edge.                                        *)
C7_NoRejectedNodes ==
    LET fetched  == { m \in Nodes : HasDepth(m) }
        links    == [ m \in fetched |-> NormalizedLinks(graph_nodes[m].url) ]
        rejected ==
            UNION { { UrlJoin[graph_nodes[m].url, a.href] :
                        a \in { t \in ServerPage(graph_nodes[m].url).anchors :
                                  /\ UrlJoinValid[graph_nodes[m].url, t.href]
                                  /\ NormalizeUrl(t.href, graph_nodes[m].url) = None } } :
                    m \in fetched }
    IN  /\ \A n \in Nodes :
              /\ UrlParse[graph_nodes[n].url, <<>>].netloc = ParsedStart.netloc
              /\ ~ ShouldIgnoreUrl(graph_nodes[n].url)
              /\ NormalizeUrl(graph_nodes[n].url, graph_nodes[n].url) # None
              /\ \/ graph_nodes[n].url = start_url
                 \/ \E m \in fetched : graph_nodes[n].url \in links[m]
        /\ rejected \cap NodeUrls = {}
        /\ \A e \in graph_edges :
              /\ e[1] \in fetched /\ e[2] \in Nodes
              /\ graph_nodes[e[2]].url \in links[e[1]]

\* Pages with an off-domain link, a malformed link and an ignored link
\* were fetched successfully.
C7_Witness ==
    /\ site = BlogSite /\ ignore_paths # <<>>
    /\ {<<Root, 0>>, <<About, 1>>} \subseteq DepthOf

(* C8: ignore-path exclusion.  With the ignore pattern /private* the paths *)
(* /private, /private/ and /private/page are ignored, and a link to        *)
(* https://x.test/private/page found on a page never becomes a node, never *)
(* gets an edge and is never enqueued or fetched.                          *)
C8_IgnorePrivate ==
    ignore_paths = <<PrivateStar>> =>
        /\ ShouldIgnoreUrl(Base \o <<"/", "private">>)
        /\ ShouldIgnoreUrl(Base \o <<"/", "private", "/">>)
        /\ ShouldIgnoreUrl(PrivatePage)
        /\ PrivatePage \notin NodeUrls
        /\ PrivatePage \notin DOMAIN url_to_id
        /\ \A e \in EdgeUrls : e[1] # PrivatePage /\ e[2] # PrivatePage
        /\ \A i \in DOMAIN queue : queue[i][1] = PrivatePage => queue[i][2] = 0
        /\ PrivatePage \notin FetchedUrls

\* With /private* ignored, a page that links to /private/page was fetched
\* successfully and the crawl is over.
C8_Witness ==
    /\ ignore_paths = <<PrivateStar>>
    /\ pc = "done"
    /\ \E n \in Nodes :
          /\ HasDepth(n)
          /\ \E a \in ServerPage(graph_nodes[n].url).anchors :
                UrlJoin[graph_nodes[n].url, a.href] = PrivatePage

(* C9: every node's url is canonical for any start url the command line    *)
(* accepts: no fragment, no trailing slash unless it is the domain root,   *)
(* and normalizing it returns the same string.                             *)
C9_CanonicalNodeUrls ==
    \A n \in Nodes :
        /\ NormalizeUrl(graph_nodes[n].url, graph_nodes[n].url) = graph_nodes[n].url
        /\ ~ Contains[graph_nodes[n].url, "#"]
        /\ EndsWith[graph_nodes[n].url, Slash] => graph_nodes[n].url = BaseDomain \o Slash

(* C10: no orphan nodes.  Every node other than the start url's node has   *)
(* at least one incoming edge.                                             *)
C10_NoOrphanNodes ==
    \A n \in Nodes :
        graph_nodes[n].url # start_url =>
            \E e \in graph_edges : e[2] = n /\ e[1] \in Nodes /\ e[1] # n

\* The graph holds a fetched page other than the start page and a node
\* that was only discovered.
C10_Witness ==
    /\ \E n \in Nodes : HasDepth(n) /\ graph_nodes[n].url # start_url
    /\ \E n \in Nodes : ~ HasDepth(n) /\ graph_nodes[n].url \notin QueuedUrls

(* C11: depth is monotone along edges.  In every state of the program,    *)
(* every edge (s, t) of the graph whose two endpoints have a depth          *)
(* attribute has depth(s) <= depth(t) <= depth(s) + 1.                      *)
C11_DepthMonotone ==
    \A e \in graph_edges :
        (HasDepth(e[1]) /\ HasDepth(e[2])) =>
            /\ graph_nodes[e[1]].depth <= graph_nodes[e[2]].depth
            /\ graph_nodes[e[2]].depth <= graph_nodes[e[1]].depth + 1

\* The urls whose page was fetched successfully.
PageUrls == { fetch_log[i].url : i \in { j \in DOMAIN fetch_log : fetch_log[j].html } }

\* The urls within k links of a url of `near`, and within k links of the
\* start url, each link found on a page that was fetched successfully.
WithinOf[near \in SUBSET Str, k \in Nat] ==
    IF k = 0 THEN near
    ELSE WithinOf[near \cup UNION { NormalizedLinks(u) : u \in near \cap PageUrls },
                  k - 1]

Within[k \in Nat] == WithinOf[{start_url}, k]

(* C12: the recorded depth is the BFS distance.  In every state of the     *)
(* program, a node with depth attribute d has a url that is within d links  *)
(* of the start url through successfully fetched pages, and not within      *)
(* d - 1 links.                                                             *)
C12_DepthIsDistance ==
    \A n \in Nodes :
        HasDepth(n) =>
            /\ graph_nodes[n].url \in Within[graph_nodes[n].depth]
            /\ graph_nodes[n].depth > 0 =>
                  graph_nodes[n].url \notin Within[graph_nodes[n].depth - 1]

C14_TrailingSlash ==
    /\ ( /\ pc = "slashed"
         /\ call.href # Root
         /\ UrlParse[call.href, <<>>].valid
         /\ UrlParse[call.href, <<>>].netloc = ParsedStart.netloc
         /\ ret[1] # None )
       => ret[2] = ret[1]
    /\ ( /\ pc = "returned" /\ call.op = "normalize"
         /\ call.href = Root
         /\ ret[1] # None )
       => ret[1] = Root

(* C15: the robots gate fails open.  When loading robots.txt failed (the   *)
(* request raised, or the server answered with an error status, so that no  *)
(* policy was read), or when querying the policy raises, _can_fetch is      *)
(* true: every url handed to _fetch_page passes the gate and is requested.  *)
C15_RobotsFailOpen ==
    \A i \in DOMAIN fetch_log :
        ( \/ robots_parser.is_none
          \/ ~ robots_parser.last_checked
          \/ RobotsCanFetchRaises(robots_parser, fetch_log[i].url) )
        => fetch_log[i].request

C18_FailedFetchFrame ==
    [][ ( /\ Len(fetch_log') = Len(fetch_log) + 1
          /\ ~ fetch_log'[Len(fetch_log')].html )
        => /\ graph_nodes' = graph_nodes
           /\ graph_edges' = graph_edges
           /\ url_to_id' = url_to_id
           /\ next_id' = next_id
           /\ fetch_log'[Len(fetch_log')].url \in visited'
           /\ \A i \in DOMAIN fetch_log :
                 fetch_log[i].url # fetch_log'[Len(fetch_log')].url
           /\ queue' = Tail(queue)
           /\ pc' = "loop" ]_vars

\* The fetch of a url that has a discovered node failed after the request
\* was sent; the node is still without depth, and the loop went on to fetch
\* another page.
C18_Witness ==
    /\ pc = "loop"
    /\ \E i, j \in DOMAIN fetch_log :
          /\ i < j
          /\ ~ fetch_log[i].html /\ fetch_log[i].request
          /\ fetch_log[i].url \in DOMAIN url_to_id
          /\ ~ HasDepth(url_to_id[fetch_log[i].url])
          /\ \E e \in graph_edges : e[2] = url_to_id[fetch_log[i].url]
          /\ fetch_log[j].html

(* C19: a discovered node is upgraded in place.  When a url that already  *)
(* has a discovered node is dequeued and fetched successfully, the node     *)
(* keeps its id and url and all edges of the graph stay, no second node for *)
(* the url appears (the only new nodes are link targets of the page), and   *)
(* the node gains the depth of the queue item, the title of the page and    *)
(* the title, or the url when there is none, as its label.                  *)
C19_UpgradeInPlace ==
    [][ ( /\ Len(fetch_log') = Len(fetch_log) + 1
          /\ fetch_log'[Len(fetch_log')].html
          /\ fetch_log'[Len(fetch_log')].url \in DOMAIN url_to_id )
        => LET url == fetch_log'[Len(fetch_log')].url
               n   == url_to_id[url]
           IN  /\ n \in DOMAIN graph_nodes
               /\ ~ HasDepth(n)
               /\ url_to_id'[url] = n
               /\ \A u \in DOMAIN url_to_id : url_to_id'[u] = url_to_id[u]
               /\ DOMAIN graph_nodes \subseteq DOMAIN graph_nodes'
               /\ graph_nodes[n].url = url
               /\ { m \in DOMAIN graph_nodes' : graph_nodes'[m].url = url } = {n}
               /\ \A m \in DOMAIN graph_nodes' \ DOMAIN graph_nodes :
                     <<n, m>> \in graph_edges'
               /\ graph_edges \subseteq graph_edges'
               /\ "depth" \in DOMAIN graph_nodes'[n]
               /\ graph_nodes'[n].depth = fetch_log'[Len(fetch_log')].depth
               /\ "title" \in DOMAIN graph_nodes'[n]
               /\ graph_nodes'[n].title = ServerPage(url).title
               /\ graph_nodes'[n].label =
                     IF ServerPage(url).title # None
                     THEN ServerPage(url).title ELSE url ]_vars

\* A node that two pages link to was discovered, and later fetched: it has
\* depth 2 and the title of its page as label, and is not the newest node.
C19_Witness ==
    /\ pc \in {"loop", "done"}
    /\ \E n \in Nodes :
          /\ HasDepth(n)
          /\ graph_nodes[n].depth = 2
          /\ graph_nodes[n].label # graph_nodes[n].url
          /\ Cardinality({ e \in graph_edges : e[2] = n }) >= 2
          /\ \E m \in Nodes : m > n

(* C20: exporters are read-only.  Once the crawl loop has terminated, no   *)
(* step (save_csv or save_json, in any order, any number of times) changes  *)
(* the node set, a node's attributes or the edge set of the graph.          *)
C20_ExportersReadOnly ==
    [][ (pc \in {"done", "saved"}) =>
          ( /\ graph_nodes' = graph_nodes
            /\ graph_edges' = graph_edges ) ]_vars

\* The ids of the rows of the nodes CSV, and the data.id values of the
\* JSON nodes.
CsvNodeIds == { csv_files[1].nodes[i].id : i \in DOMAIN csv_files[1].nodes }

JsonNodeIds ==
    { json_file[1].nodes[i].data.id : i \in DOMAIN json_file[1].nodes }

(* C21: export consistency.  After a completed crawl every export that    *)
(* has been written names exactly the node urls of the graph: the ids of    *)
(* the nodes CSV and the data.id values of the JSON nodes are each the set  *)
(* of url attributes of the graph's nodes, one row per node, and so equal   *)
(* to each other.                                                           *)
C21_ExportConsistency ==
    /\ csv_files # <<>> =>
          /\ CsvNodeIds = NodeUrls
          /\ Len(csv_files[1].nodes) = Cardinality(Nodes)
    /\ json_file # <<>> =>
          /\ JsonNodeIds = NodeUrls
          /\ Len(json_file[1].nodes) = Cardinality(Nodes)
    /\ (csv_files # <<>> /\ json_file # <<>>) => CsvNodeIds = JsonNodeIds

\* Both exports were written for a graph of at least four nodes, one of
\* them labelled with its page title and one discovered only.
C21_Witness ==
    /\ csv_files # <<>> /\ json_file # <<>>
    /\ Cardinality(Nodes) >= 4
    /\ \E n \in Nodes : graph_nodes[n].label # graph_nodes[n].url
    /\ \E n \in Nodes :
          \A i \in DOMAIN fetch_log : fetch_log[i].url # graph_nodes[n].url

(* C22: exporters handle nodes that were discovered and never fetched.     *)
(* Every such node has a row in each file that was written; the row has     *)
(* depth 0 and the node's url as label, and the JSON element has no title   *)
(* key.                                                                     *)
C22_DiscoveredOnlyExport ==
    \A n \in Nodes :
        graph_nodes[n].url \notin PageUrls =>
            /\ csv_files # <<>> =>
                  /\ \E i \in DOMAIN csv_files[1].nodes :
                        csv_files[1].nodes[i].id = graph_nodes[n].url
                  /\ \A i \in DOMAIN csv_files[1].nodes :
                        csv_files[1].nodes[i].id = graph_nodes[n].url =>
                            /\ csv_files[1].nodes[i].depth = <<"0">>
                            /\ csv_files[1].nodes[i].label = graph_nodes[n].url
                            /\ csv_files[1].nodes[i].url = graph_nodes[n].url
            /\ json_file # <<>> =>
                  /\ \E i \in DOMAIN json_file[1].nodes :
                        json_file[1].nodes[i].data.id = graph_nodes[n].url
                  /\ \A i \in DOMAIN json_file[1].nodes :
                        json_file[1].nodes[i].data.id = graph_nodes[n].url =>
                            /\ json_file[1].nodes[i].data.depth = 0
                            /\ json_file[1].nodes[i].data.label = graph_nodes[n].url
                            /\ "title" \notin DOMAIN json_file[1].nodes[i].data

\* Both files were written for a graph with a node that was never fetched,
\* a node whose fetch failed, and a fetched page of depth 1 whose JSON
\* element has a title.
C22_Witness ==
    /\ csv_files # <<>> /\ json_file # <<>>
    /\ \E n \in Nodes :
          \A i \in DOMAIN fetch_log : fetch_log[i].url # graph_nodes[n].url
    /\ \E n \in Nodes :
          \E i \in DOMAIN fetch_log :
              fetch_log[i].url = graph_nodes[n].url /\ ~ fetch_log[i].html
    /\ \E i \in DOMAIN json_file[1].nodes :
          /\ json_file[1].nodes[i].data.depth = 1
          /\ "title" \in DOMAIN json_file[1].nodes[i].data

(* C23: only successfully fetched pages are edge sources.  In every state *)
(* of the program the source of every edge is a node with a depth           *)
(* attribute, every node with a depth attribute has its url in the visited  *)
(* set, and a node without depth has no outgoing edge.                      *)
C23_OnlyFetchedAreSources ==
    /\ \A e \in graph_edges : e[1] \in Nodes /\ HasDepth(e[1])
    /\ \A n \in Nodes : HasDepth(n) => graph_nodes[n].url \in visited
    /\ \A n \in Nodes : ~ HasDepth(n) => ~ \E e \in graph_edges : e[1] = n

\* The place of a node in visit order: the index of its url in the calls
\* of self.visited.add, and past the end for a url that was not visited.
VisitRank(n) ==
    IF \E i \in DOMAIN visit_log : visit_log[i] = graph_nodes[n].url
    THEN CHOOSE i \in DOMAIN visit_log : visit_log[i] = graph_nodes[n].url
    ELSE Len(visit_log) + 1

C25_CompleteWithinDepth ==
    (pc \in {"done", "saved"} /\ max_pages = Unlimited) =>
        /\ queue = <<>>
        /\ \A i \in DOMAIN fetch_log :
              (fetch_log[i].html /\ fetch_log[i].depth < max_depth) =>
                  NormalizedLinks(fetch_log[i].url) \subseteq visited
        /\ max_depth >= 0 => Within[max_depth] \subseteq visited

\* An uncapped crawl of the larger site with max_depth 2 is over: a page
\* was fetched at depth 2, a fetch failed, and a url that the depth-2 page
\* links to was left unvisited.
C25_Witness ==
    /\ pc = "done" /\ max_pages = Unlimited /\ max_depth = 2
    /\ site = BlogSite
    /\ \E i \in DOMAIN fetch_log : fetch_log[i].html /\ fetch_log[i].depth = 2
    /\ \E i \in DOMAIN fetch_log : ~ fetch_log[i].html
    /\ \E i \in DOMAIN fetch_log :
          /\ fetch_log[i].html /\ fetch_log[i].depth = 2
          /\ ~ (NormalizedLinks(fetch_log[i].url) \subseteq visited)

\* The urls that were marked visited without a call of _fetch_page: the
\* ones the ignore filter skipped.
IgnoredVisits ==
    { i \in DOMAIN visit_log :
        \A j \in DOMAIN fetch_log : fetch_log[j].url # visit_log[i] }

FailedFetches == { j \in DOMAIN fetch_log : ~ fetch_log[j].html }

(* C26: the page cap counts attempts, not pages in the graph.  Every url   *)
(* that is dequeued and neither too deep nor visited enters the visited     *)
(* set, whether it is fetched, fails, is blocked or is ignored, so visited  *)
(* is the fetched pages plus the failed fetches plus the ignored urls;      *)
(* with max_pages = n at most n such attempts are made, and the loop        *)
(* leaves urls in the queue only when the attempts have reached n.          *)
C26_CapCountsAttempts ==
    /\ Cardinality(visited) = Len(visit_log)
    /\ Len(visit_log) = Cardinality(PageUrls) + Cardinality(FailedFetches)
                          + Cardinality(IgnoredVisits)
    /\ \A j \in FailedFetches : fetch_log[j].url \in visited
    /\ \A i \in IgnoredVisits : visit_log[i] \in visited
    /\ max_pages # Unlimited =>
          /\ max_pages[1] >= 0 => Len(visit_log) <= max_pages[1]
          /\ (pc # "loop" /\ queue # <<>>) => Len(visit_log) >= max_pages[1]

\* A crawl with max_pages = 2 is over after a failed fetch: one page only
\* has a depth, and a page that could be fetched is still in the queue.
C26_Witness ==
    /\ pc = "done"
    /\ max_pages # Unlimited /\ max_pages[1] = 2
    /\ Cardinality(FailedFetches) = 1
    /\ Cardinality({ n \in Nodes : HasDepth(n) }) = 1
    /\ \E i \in DOMAIN queue :
          /\ queue[i][1] \notin visited
          /\ queue[i][2] <= max_depth
          /\ ~ ShouldIgnoreUrl(queue[i][1])
          /\ CanFetch(queue[i][1])
          /\ ServerPage(queue[i][1]).kind = "html"


\* The positions in fetch_log of the calls that issued an HTTP request.
Requests == { i \in DOMAIN fetch_log : fetch_log[i].request }

\* The calls of time.sleep made after the i-th and before the j-th call of
\* self._fetch_page.
SleepsBetween(i, j) ==
    { k \in DOMAIN sleep_log : sleep_log[k].fetches \in i..(j - 1) }

\* C27: with a positive delay, between any two consecutive HTTP page
\* requests of one crawl there is a sleep of the configured delay, whatever
\* the outcome of the earlier request was.
C27_SleepBetweenRequests ==
    delay > 0 =>
      \A i, j \in Requests :
        (i < j /\ ~ \E m \in Requests : i < m /\ m < j) =>
          \E k \in SleepsBetween(i, j) : sleep_log[k].secs = delay


\* The tag is inside a footer with class "post-footer".
InsidePostFooter(tag) ==
    \E i \in DOMAIN tag.footers : "post-footer" \in tag.footers[i]

\* The links of the page at url that appear on it only inside a footer
\* with class "post-footer".
FooterOnlyLinks(url) ==
    LET inside  == { t \in ServerPage(url).anchors : InsidePostFooter(t) }
        outside == ServerPage(url).anchors \ inside
    IN  ({ NormalizeUrl(t.href, url) : t \in inside } \ {None})
            \ { NormalizeUrl(t.href, url) : t \in outside }

\* C28: a link that appears on a fetched page only inside a footer with
\* class post-footer gives no edge from that page and, unless it is the
\* start url or a link of another fetched page, no node and no queue entry.
C28_PostFooterInvisible ==
    \A u \in PageUrls : \A l \in FooterOnlyLinks(u) :
        /\ l \in DOMAIN url_to_id =>
              << url_to_id[u], url_to_id[l] >> \notin graph_edges
        /\ (/\ l # start_url
            /\ \A v \in PageUrls \ {u} : l \notin NormalizedLinks(v))
           => /\ l \notin DOMAIN url_to_id
              /\ \A i \in DOMAIN queue : queue[i][1] # l


\* The contents the answer returned between the markers of file_path_str.
ReturnedUnder(file_path_str) ==
    LET matches1 == FindAllMarkers(call.response, 1)
    IN  { matches1[i].content :
            i \in { n \in DOMAIN matches1 :
                      matches1[n].file_path_str = file_path_str } }

\* C29: parse_copilot_response maps no input file to content that the
\* answer returned under the path of another input file (and not under its
\* own), also when input files share a file name.
C29_ContentUnderOwnPath ==
    (call.op = "parse" /\ pc = "returned") =>
        \A f \in DOMAIN ret[1] : \A n \in DOMAIN call.file_paths :
            (call.file_paths[n] # f /\ ret[1][f] \in ReturnedUnder(call.file_paths[n]))
                => ret[1][f] \in ReturnedUnder(f)


\* The title line of the front matter of a file, whole: what follows
\* title: up to the end of the line, or None.
FrontMatterTitle(content) ==
    LET frontmatter == FrontMatterMatch(content)
        starts == { i \in DOMAIN frontmatter :
                      /\ frontmatter[i] = "title:"
                      /\ (i = 1 \/ frontmatter[i - 1] = "\n") }
        first == CHOOSE x \in starts : \A y \in starts : x <= y
        ends == { e \in (first + 1)..(Len(frontmatter) + 1) :
                    e = Len(frontmatter) + 1 \/ frontmatter[e] = "\n" }
        end == CHOOSE x \in ends : \A y \in ends : x <= y
    IN  IF frontmatter = None \/ starts = {} THEN None
        ELSE StripText(SubSeq(frontmatter, first + 1, end - 1))

\* C30: main overwrites a content file only when dry-run is off, an update
\* was returned for it, the update starts with front matter if the original
\* does, the front-matter title is unchanged, the update is between 0.5 and
\* 2 times as long as the original, differs from it and adds a link; in
\* dry-run mode no content file changes and no graph file is written.
C30_WriteOnlyWhenValid ==
    call.op = "main" =>
        /\ \A f \in DOMAIN disk :
              disk[f] # call.files_content[f] =>
                /\ ~ call.dry_run
                /\ f \in DOMAIN Updates
                /\ disk[f] = Updates[f]
                /\ HasFrontMatter(call.files_content[f])
                      => HasFrontMatter(Updates[f])
                /\ FrontMatterTitle(call.files_content[f]) # None
                      => FrontMatterTitle(Updates[f])
                            = FrontMatterTitle(call.files_content[f])
                /\ 2 * Len(Updates[f]) >= Len(call.files_content[f])
                /\ Len(Updates[f]) <= 2 * Len(call.files_content[f])
                /\ ExtractLinksFromDiff(call.files_content[f], Updates[f]) # {}
        /\ call.dry_run => (disk = call.files_content /\ links_graph = {})

====
